---- MODULE Spec2Model ----
(***************************************************************************)
(* Model of twimg.py: the tweet scraper's dedup-merge pipeline.            *)
(*                                                                         *)
(* A run is  scrape_twitter -> load_existing_tweets -> merge -> publish.   *)
(* Strings are sequences of one-character strings, so that the text codec  *)
(* (str.split, str.strip, re.search, the f-string writer) is modelled by   *)
(* what it does to characters.  The persisted log is one text: what a run  *)
(* writes to public/tweets.txt is what the next run fetches from           *)
(* EXISTING_DATA_URL.                                                      *)
(***************************************************************************)
EXTENDS Integers, Sequences, FiniteSets, TLC

VARIABLES
    pc,               \* position of the run / of the function under check
    runs,             \* number of runs started
    persisted,        \* content of the persisted log (tweets.txt)
    n_articles,       \* articles visited so far by the scrape loops
    tweets_data,      \* scrape_twitter: records collected in this session
    seen_tweet_sigs,  \* scrape_twitter: raw signatures seen in this session
    new_tweets,       \* __main__: result of scrape_twitter
    fetch,            \* outcome of requests.get in load_existing_tweets
    existing_tweets,  \* __main__: result of load_existing_tweets
    merged_tweets,    \* __main__: the merge result
    added_count,      \* __main__: number of records inserted by the merge
    prev_log,         \* history: the persisted log when the run started
    last_new,         \* history: new_tweets of the previous run
    last_published    \* history: the previous run wrote the log

vars == << pc, runs, persisted, n_articles, tweets_data, seen_tweet_sigs,
           new_tweets, fetch, existing_tweets, merged_tweets, added_count,
           prev_log, last_new, last_published >>

-----------------------------------------------------------------------------
(* Bounds *)

MaxRuns == 2
MaxArticles == 2
MaxBaseline == 2
MaxIncoming == 3
MaxRecords == 2
MaxChunks == 3

(* "-" * 20 *)
SepLen == 20

-----------------------------------------------------------------------------
(* Characters and strings *)

NL == "\n"
SP == " "

Whitespace == { SP, NL, "\t", "\r" }

RECURSIVE Concat(_)
Concat(ss) == IF ss = << >> THEN << >> ELSE Head(ss) \o Concat(Tail(ss))

Min(S) == CHOOSE x \in S : \A y \in S : x <= y

(* s[i..] starts with p *)
StartsAt(p, s, i) ==
    /\ i >= 1
    /\ i + Len(p) - 1 <= Len(s)
    /\ \A k \in 1..Len(p) : s[i + k - 1] = p[k]

(* str.find, 1-based; 0 when p does not occur in s *)
Find(p, s) ==
    LET hits == { i \in 1..(Len(s) - Len(p) + 1) : StartsAt(p, s, i) }
    IN  IF hits = {} THEN 0 ELSE Min(hits)

(* str.split(sep): leftmost, non-overlapping; empty pieces are kept *)
RECURSIVE Split(_, _)
Split(s, sep) ==
    LET i == Find(sep, s)
    IN  IF i = 0 THEN << s >>
        ELSE << SubSeq(s, 1, i - 1) >> \o Split(SubSeq(s, i + Len(sep), Len(s)), sep)

(* str.strip() *)
Strip(s) ==
    LET keep == { i \in 1..Len(s) : s[i] \notin Whitespace }
    IN  IF keep = {} THEN << >>
        ELSE SubSeq(s, Min(keep), CHOOSE i \in keep : \A j \in keep : j <= i)

(* str.replace("\n", " ") *)
ReplaceNewlines(s) == [ i \in 1..Len(s) |-> IF s[i] = NL THEN SP ELSE s[i] ]

\* s up to, not including, its first line break: what the group of
\* r"User: (.*)" matches when the label ends right before s
UpToNewline(s) ==
    LET nl == { i \in 1..Len(s) : s[i] = NL }
    IN  IF nl = {} THEN s ELSE SubSeq(s, 1, Min(nl) - 1)

\* re.search of label followed by a one-line group: << >> for no match,
\* else << group(1) >>
SearchLine(label, entry) ==
    LET i == Find(label, entry)
    IN  IF i = 0 THEN << >>
        ELSE << UpToNewline(SubSeq(entry, i + Len(label), Len(entry))) >>

\* re.search of label followed by a group taking the rest of the entry
SearchRest(label, entry) ==
    LET i == Find(label, entry)
    IN  IF i = 0 THEN << >>
        ELSE << SubSeq(entry, i + Len(label), Len(entry)) >>

-----------------------------------------------------------------------------
(* Record model and the serialized log codec *)

UserLabel == << "U", "s", "e", "r", ":", " " >>
TimeLabel == << "T", "i", "m", "e", ":", " " >>
TextLabel == << "T", "e", "x", "t", ":", " " >>

Separator == [ i \in 1..SepLen |-> "-" ] \o << NL >>

Record(u, t, x) == [ user_info |-> u, timestamp |-> t, text |-> x ]

(* f"{user_info}_{timestamp}_{text}" *)
Sig(t) == t.user_info \o << "_" >> \o t.timestamp \o << "_" >> \o t.text

(* the four f.write calls for one tweet *)
EncodeTweet(tweet) ==
    UserLabel \o tweet.user_info \o << NL >>
    \o TimeLabel \o tweet.timestamp \o << NL >>
    \o TextLabel \o tweet.text \o << NL >>
    \o Separator

Encode(tweets) == Concat([ i \in 1..Len(tweets) |-> EncodeTweet(tweets[i]) ])

(* the body of the for loop over raw_entries: the records one entry yields *)
DecodeEntry(entry) ==
    LET user_match == SearchLine(UserLabel, entry)
        time_match == SearchLine(TimeLabel, entry)
        text_match == SearchRest(TextLabel, entry)
    IN  IF Strip(entry) = << >> THEN << >>
        ELSE IF user_match # << >> /\ time_match # << >> /\ text_match # << >>
        THEN << Record(Strip(user_match[1]), Strip(time_match[1]), Strip(text_match[1])) >>
        ELSE << >>

Decode(content) ==
    LET raw_entries == Split(content, Separator)
    IN  Concat([ i \in 1..Len(raw_entries) |-> DecodeEntry(raw_entries[i]) ])

-----------------------------------------------------------------------------
(* load_existing_tweets *)

FetchOutcomes == { "no_url", "exception", "status", "ok" }

\* what the run then knows of the baseline: one of the three failures, "ok",
\* or "malformed" for a 200 response whose text holds no parsable entry
FetchFailures == { "no_url", "exception", "status", "malformed" }

\* a loader without the guards: it parses the text whatever the outcome
LoadFailsOpen(outcome, content) == Decode(content)

\* outcome: "no_url"    file_url is empty,
\*          "exception" requests.get or the parsing raised,
\*          "status"    resp.status_code != 200,
\*          "ok"        status 200, resp.text = content
load_existing_tweets(outcome, content) ==
    IF outcome = "ok" THEN Decode(content) ELSE << >>

-----------------------------------------------------------------------------
(* scrape_twitter: the body of the loop over articles *)

ScrapeStep(data, sigs, article) ==
    LET sig == Sig(article)
    IN  IF sig \notin sigs
        THEN [ tweets_data |-> Append(data,
                   Record(ReplaceNewlines(article.user_info),
                          article.timestamp, article.text)),
               seen_tweet_sigs |-> sigs \cup { sig } ]
        ELSE [ tweets_data |-> data, seen_tweet_sigs |-> sigs ]

-----------------------------------------------------------------------------
(* __main__: merge and publish *)

SeenSigs(tweets) == { Sig(tweets[i]) : i \in 1..Len(tweets) }

\* a merge that starts from an empty list
InitialMergedEmpty(existing) == << >>

\* merged_tweets = list(existing_tweets)
InitialMerged(existing) == existing

\* merged_tweets.append(t)
InsertBack(merged, t) == Append(merged, t)

\* merged_tweets.insert(0, t)
InsertFront(merged, t) == << t >> \o merged

\* the loop "for t in new_tweets" with its three locals
RECURSIVE MergeLoop(_, _, _, _)
MergeLoop(merged, seen_sigs, count, rest) ==
    IF rest = << >>
    THEN [ merged_tweets |-> merged, added_count |-> count ]
    ELSE LET t == Head(rest)
             sig == Sig(t)
         IN  IF sig \notin seen_sigs
             THEN MergeLoop(InsertFront(merged, t), seen_sigs \cup { sig },
                            count + 1, Tail(rest))
             ELSE MergeLoop(merged, seen_sigs, count, Tail(rest))

MergeTweets(existing, new) ==
    MergeLoop(InitialMerged(existing), SeenSigs(existing), 0, new)

\* a writer that opens the file with "a"
WriteAppends(old, merged) == old \o Encode(merged)

\* "if merged_tweets:" open(output_path, "w") and the writes; else nothing
WriteLog(old, merged) ==
    IF merged # << >> THEN Encode(merged) ELSE old

-----------------------------------------------------------------------------
(* Inputs *)

ArtPlain   == Record(<< "a", SP, "b" >>, << "t" >>, << "x" >>)
ArtPadded  == Record(<< "a", SP, "b" >>, << "t" >>, << SP, "x" >>)
ArtTwoLine == Record(<< "a", NL, "b" >>, << "t" >>, << "x" >>)
ArtOther   == Record(<< "c" >>, << "u" >>, << "y", NL, "z" >>)

\* what an article of the page can hold: User-Name, time, tweetText
Articles == { ArtPlain, ArtPadded, ArtTwoLine, ArtOther }

SeqsUpTo(S, n) == UNION { [ 1..k -> S ] : k \in 0..n }

\* two records with one signature, "a_b_c_x"
RecSplitA == Record(<< "a" >>, << "b", "_", "c" >>, << "x" >>)
RecSplitB == Record(<< "a", "_", "b" >>, << "c" >>, << "x" >>)

MergePool == { ArtPlain, ArtOther, RecSplitA, RecSplitB }

RecLabel  == Record(TimeLabel \o << "b" >>, << "t" >>, << "x" >>)
RecSepLine == Record(<< "c" >>, << "u" >>,
                     << "y", NL >> \o Separator \o << "z" >>)

CodecPool == { ArtPlain, ArtPadded, ArtOther, RecLabel, RecSepLine }

ChunkGood   == UserLabel \o << "a", NL >> \o TimeLabel \o << "t", NL >>
               \o TextLabel \o << "x", NL >>
ChunkGood2  == UserLabel \o << "c", NL >> \o TimeLabel \o << "u", NL >>
               \o TextLabel \o << "y", NL, "z", NL >>
ChunkNoTime == UserLabel \o << "a", NL >> \o TextLabel \o << "x", NL >>
ChunkInline == UserLabel \o TimeLabel \o << "b", NL >> \o TextLabel \o << "x", NL >>
ChunkBlank  == << NL >>

ChunkPool == { ChunkGood, ChunkGood2, ChunkNoTime, ChunkInline, ChunkBlank }

\* 200 responses that are not a log: a page of markup, an entry cut short
MalformedTexts == { << "<", "h", "t", "m", "l", ">", NL >>, ChunkNoTime \o Separator }

\* a log text: each chunk followed by the separator line
LogOf(chunks) == Concat([ i \in 1..Len(chunks) |-> chunks[i] \o Separator ])

-----------------------------------------------------------------------------
(* The pipeline: one action per step of a run *)

Init ==
    /\ pc = "idle"
    /\ runs = 0
    /\ persisted = << >>
    /\ n_articles = 0
    /\ tweets_data = << >>
    /\ seen_tweet_sigs = {}
    /\ new_tweets = << >>
    /\ fetch = "none"
    /\ existing_tweets = << >>
    /\ merged_tweets = << >>
    /\ added_count = 0
    /\ prev_log = << >>
    /\ last_new = << >>
    /\ last_published = FALSE

\* python twimg.py <URL>: a new process; scrape_twitter starts its loops
StartRun ==
    /\ pc \in { "idle", "done", "failed" }
    /\ runs < MaxRuns
    /\ pc' = "scraping"
    /\ runs' = runs + 1
    /\ n_articles' = 0
    /\ tweets_data' = << >>
    /\ seen_tweet_sigs' = {}
    /\ new_tweets' = << >>
    /\ fetch' = "none"
    /\ existing_tweets' = << >>
    /\ merged_tweets' = << >>
    /\ added_count' = 0
    /\ prev_log' = persisted
    /\ last_new' = new_tweets
    /\ last_published' = (pc = "done" /\ merged_tweets # << >>)
    /\ UNCHANGED persisted

\* one article of one scroll iteration
ScrapeArticle(article) ==
    /\ pc = "scraping"
    /\ n_articles < MaxArticles
    /\ LET r == ScrapeStep(tweets_data, seen_tweet_sigs, article)
       IN  /\ tweets_data' = r.tweets_data
           /\ seen_tweet_sigs' = r.seen_tweet_sigs
    /\ n_articles' = n_articles + 1
    /\ UNCHANGED << pc, runs, persisted, new_tweets, fetch, existing_tweets,
                    merged_tweets, added_count, prev_log, last_new, last_published >>

\* a locator call raises inside the article's try: "except: continue"
ScrapeArticleSkipped ==
    /\ pc = "scraping"
    /\ n_articles < MaxArticles
    /\ n_articles' = n_articles + 1
    /\ UNCHANGED << pc, runs, persisted, tweets_data, seen_tweet_sigs, new_tweets,
                    fetch, existing_tweets, merged_tweets, added_count, prev_log,
                    last_new, last_published >>

\* return tweets_data
ScrapeReturn ==
    /\ pc = "scraping"
    /\ pc' = "scraped"
    /\ new_tweets' = tweets_data
    /\ UNCHANGED << runs, persisted, n_articles, tweets_data, seen_tweet_sigs, fetch,
                    existing_tweets, merged_tweets, added_count, prev_log, last_new,
                    last_published >>

\* goto or a page call raises: "raise e", then "Failed", sys.exit(1)
ScrapeFails ==
    /\ pc = "scraping"
    /\ pc' = "failed"
    /\ UNCHANGED << runs, persisted, n_articles, tweets_data, seen_tweet_sigs,
                    new_tweets, fetch, existing_tweets, merged_tweets, added_count,
                    prev_log, last_new, last_published >>

\* existing_tweets = load_existing_tweets(existing_data_url)
\* content is resp.text: the persisted log, or a text that is no log
Load(outcome, content) ==
    /\ pc = "scraped"
    /\ content # persisted => outcome = "ok"
    /\ pc' = "loaded"
    /\ fetch' = IF content # persisted THEN "malformed" ELSE outcome
    /\ existing_tweets' = load_existing_tweets(outcome, content)
    /\ UNCHANGED << runs, persisted, n_articles, tweets_data, seen_tweet_sigs,
                    new_tweets, merged_tweets, added_count, prev_log, last_new,
                    last_published >>

Merge ==
    /\ pc = "loaded"
    /\ pc' = "merged"
    /\ LET m == MergeTweets(existing_tweets, new_tweets)
       IN  /\ merged_tweets' = m.merged_tweets
           /\ added_count' = m.added_count
    /\ UNCHANGED << runs, persisted, n_articles, tweets_data, seen_tweet_sigs,
                    new_tweets, fetch, existing_tweets, prev_log, last_new,
                    last_published >>

Publish ==
    /\ pc = "merged"
    /\ pc' = "done"
    /\ persisted' = WriteLog(persisted, merged_tweets)
    /\ UNCHANGED << runs, n_articles, tweets_data, seen_tweet_sigs, new_tweets, fetch,
                    existing_tweets, merged_tweets, added_count, prev_log, last_new,
                    last_published >>

Next ==
    \/ StartRun
    \/ \E article \in Articles : ScrapeArticle(article)
    \/ ScrapeArticleSkipped
    \/ ScrapeReturn
    \/ ScrapeFails
    \/ \E outcome \in FetchOutcomes, content \in { persisted } \cup MalformedTexts :
          Load(outcome, content)
    \/ Merge
    \/ Publish

Spec == Init /\ [][Next]_vars

-----------------------------------------------------------------------------
(* The merge step as a function of any baseline and any incoming sequence *)

Idle ==
    /\ runs = 0
    /\ n_articles = 0
    /\ tweets_data = << >>
    /\ seen_tweet_sigs = {}
    /\ fetch = "none"
    /\ added_count = 0
    /\ prev_log = << >>
    /\ last_new = << >>
    /\ last_published = FALSE

InitMerge ==
    /\ Idle
    /\ pc = "loaded"
    /\ persisted = << >>
    /\ existing_tweets \in SeqsUpTo(MergePool, MaxBaseline)
    /\ new_tweets \in SeqsUpTo(MergePool, MaxIncoming)
    /\ merged_tweets = << >>

SpecMerge == InitMerge /\ [][Merge]_vars

-----------------------------------------------------------------------------
(* The codec as functions: the writer on any record sequence, the parser on *)
(* any log text and on what the writer wrote                                *)

InitCodec ==
    /\ Idle
    /\ new_tweets = << >>
    /\ existing_tweets = << >>
    /\ \/ /\ pc = "records"
          /\ merged_tweets \in SeqsUpTo(CodecPool, MaxRecords)
          /\ persisted = << >>
       \/ /\ pc = "text"
          /\ merged_tweets = << >>
          /\ persisted \in { LogOf(chunks) : chunks \in SeqsUpTo(ChunkPool, MaxChunks) }

\* the writer of the publisher, applied to merged_tweets
ApplyEncode ==
    /\ pc = "records"
    /\ pc' = "encoded"
    /\ persisted' = Encode(merged_tweets)
    /\ UNCHANGED << runs, n_articles, tweets_data, seen_tweet_sigs, new_tweets, fetch,
                    existing_tweets, merged_tweets, added_count, prev_log, last_new,
                    last_published >>

\* the parser of load_existing_tweets, applied to the log text
ApplyDecode ==
    /\ pc \in { "encoded", "text" }
    /\ pc' = IF pc = "encoded" THEN "roundtrip" ELSE "decoded"
    /\ existing_tweets' = Decode(persisted)
    /\ UNCHANGED << runs, persisted, n_articles, tweets_data, seen_tweet_sigs,
                    new_tweets, fetch, merged_tweets, added_count, prev_log, last_new,
                    last_published >>

NextCodec == ApplyEncode \/ ApplyDecode

SpecCodec == InitCodec /\ [][NextCodec]_vars

-----------------------------------------------------------------------------
(* Properties *)

Range(s) == { s[i] : i \in 1..Len(s) }

Reverse(s) == [ k \in 1..Len(s) |-> s[Len(s) + 1 - k] ]

NoDupSigs(s) == \A i, j \in 1..Len(s) : i # j => Sig(s[i]) # Sig(s[j])

\* positions of incoming whose signature is neither in the baseline nor
\* carried by an earlier incoming record
NewIndices(existing, new) ==
    { i \in 1..Len(new) :
        /\ Sig(new[i]) \notin SeenSigs(existing)
        /\ \A j \in 1..(i - 1) : Sig(new[j]) # Sig(new[i]) }

\* the records at those positions, in the order of incoming
FirstNew(existing, new) ==
    LET I == NewIndices(existing, new)
        idx(k) == CHOOSE i \in I : Cardinality({ j \in I : j < i }) = k - 1
    IN  [ k \in 1..Cardinality(I) |-> new[idx(k)] ]

\* C1: the merge returns the first occurrences (by signature) of the incoming
\* records whose signature is not in the baseline, in reverse of their order in
\* incoming, followed by the whole baseline in its order; added_count is their
\* number.
C1_MergeResult ==
    pc = "merged" =>
        /\ merged_tweets = Reverse(FirstNew(existing_tweets, new_tweets)) \o existing_tweets
        /\ added_count = Cardinality(NewIndices(existing_tweets, new_tweets))

\* a merge over a non-empty baseline that inserted two records and skipped an
\* incoming record repeating an earlier incoming signature
C1_Witness ==
    /\ pc = "merged"
    /\ existing_tweets # << >>
    /\ added_count >= 2
    /\ \E i, j \in 1..Len(new_tweets) :
          /\ i < j
          /\ Sig(new_tweets[i]) = Sig(new_tweets[j])
          /\ Sig(new_tweets[i]) \notin SeenSigs(existing_tweets)

\* C2: in the merged log the baseline records come last, in their order, and
\* the newly discovered records come before them in the order they were
\* encountered: a new record encountered before another new record appears
\* before it.
C2_EncounterOrder ==
    pc = "merged" =>
        LET n == Len(merged_tweets) - Len(existing_tweets)
            I == NewIndices(existing_tweets, new_tweets)
            PosOf(t) == Min({ k \in 1..n : merged_tweets[k] = t })
        IN  /\ n >= 0
            /\ SubSeq(merged_tweets, n + 1, Len(merged_tweets)) = existing_tweets
            /\ \A i \in I : \E k \in 1..n : merged_tweets[k] = new_tweets[i]
            /\ \A i, j \in I : i < j => PosOf(new_tweets[i]) < PosOf(new_tweets[j])

\* C3: in every merged log of every run, after any number of earlier runs, no
\* two records share a signature.
C3_NoDuplicateSignatures ==
    pc \in { "merged", "done" } => NoDupSigs(merged_tweets)

\* C4: the persisted log is append-only: every record of the log before a run
\* is a record of the log after the run, whatever the outcome of the fetch.
C4_AppendOnly ==
    pc = "done" => Range(Decode(prev_log)) \subseteq Range(Decode(persisted))

\* C4, amended: when the baseline fetch succeeds, the records decoded from the
\* log as it stood before the run are the tail of the merge result, and the
\* merge result is what the run writes; when the fetch fails the merge result
\* holds records of this run's scrape only.
C4_AppendOnlyWhenFetched ==
    pc = "done" =>
        /\ fetch = "ok" =>
              LET base == Decode(prev_log)
                  n == Len(merged_tweets) - Len(base)
              IN  /\ n >= 0
                  /\ SubSeq(merged_tweets, n + 1, Len(merged_tweets)) = base
                  /\ merged_tweets # << >> => persisted = Encode(merged_tweets)
        /\ fetch \in FetchFailures => Range(merged_tweets) \subseteq Range(new_tweets)

\* a run that fetched a non-empty baseline and put a new record before it
C4_Witness ==
    /\ pc = "done"
    /\ fetch = "ok"
    /\ Decode(prev_log) # << >>
    /\ added_count >= 1

\* a line of 20 dashes, and the fields that hold one as a line of their own
SeparatorLine == [ i \in 1..SepLen |-> "-" ]

HasSeparatorLine(s) == SeparatorLine \in Range(Split(s, << NL >>))

NoSeparatorLines(tweets) ==
    \A i \in 1..Len(tweets) :
        /\ ~HasSeparatorLine(tweets[i].user_info)
        /\ ~HasSeparatorLine(tweets[i].timestamp)
        /\ ~HasSeparatorLine(tweets[i].text)

\* C5: round trip of the codec, decode(encode(S)) = S, for every S without
\* separator lines in its fields.
C5_RoundTrip ==
    (pc = "roundtrip" /\ NoSeparatorLines(merged_tweets)) =>
        existing_tweets = merged_tweets

\* C6: after a run that reaches the publisher, the log is exactly the encoding
\* of the merge result, for every merge result.
C6_LogIsEncodingOfMerge ==
    pc = "done" => persisted = Encode(merged_tweets)

\* C6, amended: after a run that reaches the publisher with a non-empty merge
\* result the log is exactly the encoding of the merge result (an overwrite);
\* with an empty merge result nothing is written and the log is unchanged.
C6_LogIsEncodingOfNonEmptyMerge ==
    pc = "done" =>
        IF merged_tweets # << >>
        THEN persisted = Encode(merged_tweets)
        ELSE persisted = prev_log

\* a run that overwrote an earlier log with a merge result lacking its records
C6_Witness ==
    /\ pc = "done"
    /\ merged_tweets # << >>
    /\ prev_log # << >>
    /\ ~(Range(Decode(prev_log)) \subseteq Range(merged_tweets))

\* C7: a failed baseline fetch or decode (no URL, exception, non-200 status,
\* malformed content) is never fatal: load_existing_tweets returns the empty
\* sequence, the run is not aborted, and it goes on to merge and publish with
\* an empty baseline.
C7_FetchFailureNotFatal ==
    /\ pc = "failed" => fetch = "none"
    /\ fetch \in FetchFailures =>
          /\ existing_tweets = << >>
          /\ pc \in { "loaded", "merged", "done" }
          /\ pc = "loaded" => ENABLED Merge
          /\ pc = "merged" => ENABLED Publish
          /\ pc \in { "merged", "done" } =>
                merged_tweets = Reverse(FirstNew(<< >>, new_tweets))
          /\ (pc = "done" /\ merged_tweets # << >>) =>
                persisted = Encode(merged_tweets)

\* a run whose fetch failed while a log existed, and which published
C7_Witness ==
    /\ pc = "done"
    /\ fetch \in FetchFailures
    /\ prev_log # << >>
    /\ persisted = Encode(new_tweets)
    /\ new_tweets # << >>

HasLineStarting(label, chunk) ==
    \E line \in Range(Split(chunk, << NL >>)) : StartsAt(label, line, 1)

\* C8: decoding drops exactly the chunks that are blank or have no line
\* starting with "User: ", or none starting with "Time: ", or none starting
\* with "Text: "; every other chunk yields one record, in order.
C8_DropsExactlyCorrupt ==
    pc = "decoded" =>
        LET chunks == Split(persisted, Separator)
            Yield(c) == IF /\ Strip(c) # << >>
                           /\ HasLineStarting(UserLabel, c)
                           /\ HasLineStarting(TimeLabel, c)
                           /\ HasLineStarting(TextLabel, c)
                        THEN DecodeEntry(c) ELSE << >>
        IN  existing_tweets = Concat([ i \in 1..Len(chunks) |-> Yield(chunks[i]) ])

\* C9: no two records returned by scrape_twitter have the same signature,
\* computed from the stored fields.
C9_ScrapeOutputDeduplicated ==
    pc = "scraped" => NoDupSigs(new_tweets)

\* C10: a run that scrapes again what the previous run scraped, and whose
\* baseline is decoded from the log the previous run published, inserts
\* nothing and publishes the same log.
C10_RerunIdempotent ==
    (pc = "done" /\ last_published /\ fetch = "ok" /\ new_tweets = last_new) =>
        /\ added_count = 0
        /\ persisted = prev_log

====
